---------------------------- MODULE Spec2Model ----------------------------
(***************************************************************************)
(* A model of the training script of rt-tutorials-rf-classifier:           *)
(*   src/src/utils.py  read_json_as_dict, read_csv_in_directory,           *)
(*                     set_seeds, split_train_val                          *)
(*   src/src/train.py  run_training                                        *)
(*                                                                         *)
(* Five specifications share the module:                                   *)
(*   SpecFiles  the two file-discovery functions on every small path state *)
(*   SpecSeed   set_seeds on every kind of argument                        *)
(*   SpecSplit  split_train_val on every small table and val_pct           *)
(*   SpecRepeat split_train_val repeated, with seeding and draws between   *)
(*   SpecTrain  one run of run_training, statement by statement            *)
(***************************************************************************)
EXTENDS Integers, Sequences, FiniteSets

VARIABLES
    \* ---- SpecFiles: the path handed to the readers, and what they did
    fsKind,        \* what the path is: "dir", "file", "special", "absent"
    fsListing,     \* os.listdir(path) when it is a directory, in listing order
    jsonResult,    \* outcome of the last read_json_as_dict(path)
    csvResult,     \* outcome of the last read_csv_in_directory(path)
    \* ---- the three process-wide random sources
    environ,       \* os.environ['PYTHONHASHSEED']
    pyRandom,      \* state of the `random` module generator
    npRandom,      \* state of numpy's global generator
    seedCall,      \* argument and outcome of the last set_seeds call
    \* ---- SpecSplit
    data,          \* the table being split: a sequence of row identities
    stream,        \* which generator function the build has (fixed per run)
    calls,         \* the split_train_val calls made so far, with their outcomes
    \* ---- SpecTrain: one run of run_training
    pc,            \* the statement about to be executed
    log,           \* every statement executed so far, in order
    raised,        \* the exception that left run_training, or NoExc
    writes,        \* how often each artifact has been written
    console,       \* the lines printed
    model_config   \* the dictionary read at line 56

fsVars    == <<fsKind, fsListing, jsonResult, csvResult>>
rngVars   == <<environ, pyRandom, npRandom, seedCall>>
splitVars == <<data, stream, calls>>
trainVars == <<pc, log, raised, writes, console, model_config>>
vars      == <<fsVars, rngVars, splitVars, trainVars>>

-----------------------------------------------------------------------------
(* Bounds of the model *)

\* most entries a listed directory holds
MaxEntries == 3
\* most rows of a table, and of the table that is split repeatedly
MaxRows == 4
MaxRepeatRows == 2
MaxTrainRows == 2
\* most split_train_val calls and most random draws kept in one behaviour
MaxCalls == 2
MaxDraws == 1

-----------------------------------------------------------------------------
(* Python values *)

\* A string whose characters matter is a sequence of one-character strings.

DotJson == <<".", "j", "s", "o", "n">>
DotCsv  == <<".", "c", "s", "v">>

\* str.endswith
EndsWith(s, suffix) ==
    /\ Len(s) >= Len(suffix)
    /\ SubSeq(s, Len(s) - Len(suffix) + 1, Len(s)) = suffix

\* The file names a directory of the model may hold.
FileNames ==
    { <<"a">> \o DotJson, <<"b">> \o DotJson,
      <<"a">> \o DotCsv,  <<"b">> \o DotCsv,
      <<"a", ".", "J", "S", "O", "N">>,      \* the suffix test is case-sensitive
      <<"c", "s", "v">> }                    \* no dot: not a '.csv' name

\* An exception, or NoExc when the call returned.
NoExc == [exc |-> "none", msg |-> "none"]
Exc(type, message) == [exc |-> type, msg |-> message]

\* The outcome of a call: the exception raised or the value returned, and
\* whether os.listdir was reached on the way.
Returned(v, didList) == [err |-> NoExc, value |-> v, listed |-> didList]
Raised(e, didList)   == [err |-> e, value |-> <<>>, listed |-> didList]
NotCalled            == [err |-> NoExc, value |-> <<"not called">>, listed |-> FALSE]

\* [f for f in listing if f.endswith(suffix)]
RECURSIVE Filter(_, _)
Filter(listing, suffix) ==
    IF listing = <<>> THEN <<>>
    ELSE LET rest == Filter(Tail(listing), suffix)
         IN  IF EndsWith(Head(listing), suffix)
             THEN <<Head(listing)>> \o rest
             ELSE rest

\* os.path.join(path, f); the input path itself is <<"input_path">>
InputPath == <<"input_path">>
Join(path, f) == Append(path, f)

isdir(kind)  == kind = "dir"
isfile(kind) == kind = "file"
exists(kind) == kind \in {"dir", "file", "special"}

-----------------------------------------------------------------------------
(* utils.py: read_json_as_dict. The value returned stands for the parsed *)
(* content of the file that was opened: it is that file's path.          *)

\* a variant that takes the last '.json' entry of the listing, not the first
read_json_as_dict_last(kind, listing) ==
    IF isdir(kind)
    THEN LET json_files == Filter(listing, DotJson)
         IN  IF json_files = <<>>
             THEN Raised(Exc("ValueError", "No JSON files found in the directory"), TRUE)
             ELSE Returned(Join(InputPath, json_files[Len(json_files)]), TRUE)
    ELSE IF isfile(kind)
    THEN Returned(InputPath, FALSE)
    ELSE Raised(Exc("ValueError", "Input path is neither a file nor a directory"), FALSE)

read_json_as_dict(kind, listing) ==
    IF isdir(kind)
    THEN LET json_files == Filter(listing, DotJson)
         IN  IF json_files = <<>>
             THEN Raised(Exc("ValueError", "No JSON files found in the directory"), TRUE)
             ELSE Returned(Join(InputPath, json_files[1]), TRUE)
    ELSE IF isfile(kind)
    THEN Returned(InputPath, FALSE)
    ELSE Raised(Exc("ValueError", "Input path is neither a file nor a directory"), FALSE)

(* utils.py: read_csv_in_directory. os.listdir on a path that exists but *)
(* is no directory raises NotADirectoryError.                            *)

read_csv_in_directory(kind, listing) ==
    IF ~exists(kind)
    THEN Raised(Exc("FileNotFoundError", "Directory does not exist"), FALSE)
    ELSE IF ~isdir(kind)
    THEN Raised(Exc("NotADirectoryError", "Not a directory"), TRUE)
    ELSE LET csv_files == Filter(listing, DotCsv)
         IN  IF csv_files = <<>>
             THEN Raised(Exc("ValueError", "No CSV file found in directory"), TRUE)
             ELSE IF Len(csv_files) > 1
             THEN Raised(Exc("ValueError", "Multiple CSV files found in directory"), TRUE)
             ELSE Returned(Join(InputPath, csv_files[1]), TRUE)

\* Every listing os.listdir can return: distinct names, in any order.
Listings ==
    { l \in UNION { [1..k -> FileNames] : k \in 0..MaxEntries } :
        \A i, j \in 1..Len(l) : i # j => l[i] # l[j] }

PathKinds == {"dir", "file", "special", "absent"}

-----------------------------------------------------------------------------
(* Python scalars: a type and a value. A float is the rational num/den.    *)
(* An int is hi * 2^16 + num, so that the integers around 2**32 can be     *)
(* written: hi = 0 for the ordinary ones (num of either sign), and         *)
(* hi > 0 with 0 <= num < 2^16 for the large ones. A bool is the int 1 or  *)
(* 0; str and NoneType carry no number.                                    *)

Limb == 2^16

PyInt(n)        == [type |-> "int",      hi |-> 0, num |-> n, den |-> 1]
PyBigInt(h, lo) == [type |-> "int",      hi |-> h, num |-> lo, den |-> 1]
PyBool(b)       == [type |-> "bool",     hi |-> 0, num |-> IF b THEN 1 ELSE 0, den |-> 1]
PyFloat(n, d)   == [type |-> "float",    hi |-> 0, num |-> n, den |-> d]
PyStr           == [type |-> "str",      hi |-> 0, num |-> 0, den |-> 1]   \* "abc"
PyNone          == [type |-> "NoneType", hi |-> 0, num |-> 0, den |-> 1]

\* isinstance(v, int): bool is a subclass of int
isinstance_int(v) == v.type \in {"int", "bool"}

\* an int as the pair <<hi, num>>
IntOf(v) == <<v.hi, v.num>>
IsNegative(i) == i[1] = 0 /\ i[2] < 0
Abs(i) == IF IsNegative(i) THEN <<0, -i[2]>> ELSE i

Digit(d) ==
    CASE d = 0 -> "0" [] d = 1 -> "1" [] d = 2 -> "2" [] d = 3 -> "3"
      [] d = 4 -> "4" [] d = 5 -> "5" [] d = 6 -> "6" [] d = 7 -> "7"
      [] d = 8 -> "8" [] d = 9 -> "9"

\* the decimal digits of a non-negative int, by long division by ten
RECURSIVE NatToStr(_)
NatToStr(i) ==
    LET low  == (i[1] % 10) * Limb + i[2]
        quot == <<i[1] \div 10, low \div 10>>
    IN  IF quot = <<0, 0>> THEN <<Digit(low % 10)>>
        ELSE Append(NatToStr(quot), Digit(low % 10))

\* str(v) for the values isinstance_int lets through
str(v) ==
    IF v.type = "bool"
    THEN IF v.num = 1 THEN <<"T", "r", "u", "e">> ELSE <<"F", "a", "l", "s", "e">>
    ELSE IF IsNegative(IntOf(v)) THEN <<"-">> \o NatToStr(Abs(IntOf(v)))
    ELSE NatToStr(IntOf(v))

(* A generator is seeded from the operating system's entropy until the     *)
(* program seeds it; draws counts the values drawn since.                  *)
Unseeded      == [src |-> "entropy", seed |-> <<0, 0>>, draws |-> 0]
SeededWith(i) == [src |-> "seed", seed |-> i, draws |-> 0]
Unset         == <<>>

\* numpy accepts the seeds 0 .. 2**32 - 1, and 2**32 is <<2^16, 0>>
NpSeedInRange(i) == ~IsNegative(i) /\ i[1] < Limb

-----------------------------------------------------------------------------
(* utils.py: set_seeds. The three assignments run in order; an exception   *)
(* raised by the third leaves the first two done.                          *)

\* a variant that forgets np.random.seed (line 95)
set_seeds_without_numpy(seed_value, env, py, np) ==
    IF isinstance_int(seed_value)
    THEN [err |-> NoExc, environ |-> str(seed_value),
          pyRandom |-> SeededWith(Abs(IntOf(seed_value))), npRandom |-> np]
    ELSE [err |-> Exc("ValueError", "Invalid seed value. Cannot set seeds."),
          environ |-> env, pyRandom |-> py, npRandom |-> np]

set_seeds(seed_value, env, py, np) ==
    IF isinstance_int(seed_value)
    THEN LET env1 == str(seed_value)                       \* line 93
             py1  == SeededWith(Abs(IntOf(seed_value)))    \* line 94: random.seed takes abs()
         IN  IF NpSeedInRange(IntOf(seed_value))           \* line 95
             THEN [err |-> NoExc, environ |-> env1, pyRandom |-> py1,
                   npRandom |-> SeededWith(IntOf(seed_value))]
             ELSE [err |-> Exc("ValueError", "Seed must be between 0 and 2**32 - 1"),
                   environ |-> env1, pyRandom |-> py1, npRandom |-> np]
    ELSE [err |-> Exc("ValueError", "Invalid seed value. Cannot set seeds."),
          environ |-> env, pyRandom |-> py, npRandom |-> np]

-----------------------------------------------------------------------------
(* Initial values of each group of variables *)

\* a JSON object with the two keys run_training reads; Missing: no such key
Missing == [type |-> "missing", hi |-> 0, num |-> 0, den |-> 1]
Config(seed, split) == [seed_value |-> seed, validation_split |-> split]
NoConfig == Config(Missing, Missing)

NoSeedCall == [arg |-> PyNone, err |-> NoExc, called |-> FALSE]

FilesIdle ==
    /\ fsKind = "absent" /\ fsListing = <<>>
    /\ jsonResult = NotCalled /\ csvResult = NotCalled

RngFresh ==
    /\ environ = Unset /\ pyRandom = Unseeded /\ npRandom = Unseeded
    /\ seedCall = NoSeedCall

SplitIdle ==
    /\ data = <<>> /\ stream = 0 /\ calls = <<>>

TrainIdle ==
    /\ pc = "idle" /\ log = <<>> /\ raised = NoExc
    /\ writes = [schema |-> 0, pipeline |-> 0, predictor |-> 0]
    /\ console = <<>> /\ model_config = NoConfig

-----------------------------------------------------------------------------
(* SpecFiles: the two readers called on a path in any state *)

InitFiles ==
    /\ fsKind \in PathKinds
    /\ fsListing \in (IF fsKind = "dir" THEN Listings ELSE {<<>>})
    /\ jsonResult = NotCalled /\ csvResult = NotCalled
    /\ RngFresh /\ SplitIdle /\ TrainIdle

ReadJson ==
    /\ jsonResult' = read_json_as_dict(fsKind, fsListing)
    /\ UNCHANGED <<fsKind, fsListing, csvResult, rngVars, splitVars, trainVars>>

ReadCsv ==
    /\ csvResult' = read_csv_in_directory(fsKind, fsListing)
    /\ UNCHANGED <<fsKind, fsListing, jsonResult, rngVars, splitVars, trainVars>>

NextFiles == ReadJson \/ ReadCsv

SpecFiles == InitFiles /\ [][NextFiles]_vars

-----------------------------------------------------------------------------
(* SpecSeed: set_seeds called with every kind of argument *)

SeedArgs ==
    { PyInt(-1), PyInt(-42), PyInt(0), PyInt(1), PyInt(42),
      PyBigInt(Limb - 1, Limb - 1),     \* 2**32 - 1
      PyBigInt(Limb, 0),                \* 2**32
      PyBool(TRUE), PyBool(FALSE),
      PyStr, PyFloat(3, 2), PyFloat(1, 1), PyNone }

SetSeeds(seed_value) ==
    LET out == set_seeds(seed_value, environ, pyRandom, npRandom)
    IN  /\ environ'  = out.environ
        /\ pyRandom' = out.pyRandom
        /\ npRandom' = out.npRandom
        /\ seedCall' = [arg |-> seed_value, err |-> out.err, called |-> TRUE]

InitSeed == FilesIdle /\ RngFresh /\ SplitIdle /\ TrainIdle

NextSeed ==
    \E s \in SeedArgs : SetSeeds(s) /\ UNCHANGED <<fsVars, splitVars, trainVars>>

SpecSeed == InitSeed /\ [][NextSeed]_vars

-----------------------------------------------------------------------------
(* utils.py line 111: train_test_split(data, test_size=val_pct,            *)
(* random_state=42), as scikit-learn documents and implements it:          *)
(*   test_size a float: must lie strictly between 0 and 1, and             *)
(*                      n_test = ceil(test_size * n_samples);              *)
(*   test_size an int:  an absolute number of rows, 0 < test_size < n;     *)
(*   n_train = n_samples - n_test, and an empty train set is an error;     *)
(*   the rows are shuffled by RandomState(random_state).permutation(n),    *)
(*   the first n_test shuffled rows are the test set, the rest the train.  *)
(* The fractions of the model have denominator 4, so that the float        *)
(* product test_size * n_samples is exact.                                 *)

random_state == 42

\* ceil(a / b) for b > 0
Ceil(a, b) == -((-a) \div b)

SizeError == Exc("ValueError", "test_size should be positive and smaller than the number of samples or a float in (0, 1)")
EmptyTrainError == Exc("ValueError", "the resulting train set will be empty")

\* _validate_shuffle_split(n_samples, test_size, train_size=None)
validate_shuffle_split(n_samples, test_size) ==
    LET bad == IF test_size.type = "int"
               THEN test_size.num >= n_samples \/ test_size.num <= 0
               ELSE test_size.num <= 0 \/ test_size.num >= test_size.den
        n_test == IF test_size.type = "int" THEN test_size.num
                  ELSE Ceil(test_size.num * n_samples, test_size.den)
        n_train == n_samples - n_test
    IN  IF bad THEN [err |-> SizeError, n_train |-> 0, n_test |-> 0]
        ELSE IF n_train = 0 THEN [err |-> EmptyTrainError, n_train |-> 0, n_test |-> 0]
        ELSE [err |-> NoExc, n_train |-> n_train, n_test |-> n_test]

RECURSIVE Factorial(_)
Factorial(n) == IF n <= 1 THEN 1 ELSE n * Factorial(n - 1)

Remove(seq, i) == SubSeq(seq, 1, i - 1) \o SubSeq(seq, i + 1, Len(seq))

\* the k-th arrangement of items, 0 <= k < Len(items)!
RECURSIVE NthPermutation(_, _)
NthPermutation(k, items) ==
    IF items = <<>> THEN <<>>
    ELSE LET f == Factorial(Len(items) - 1)
             i == (k \div f) + 1
         IN  <<items[i]>> \o NthPermutation(k % f, Remove(items, i))

(* The Mersenne Twister is not modelled bit by bit. What the model keeps   *)
(* of it: the permutation a generator returns is a function of the         *)
(* generator's state (its seed and the number of draws made) and of n;     *)
(* which function is unknown, and salt ranges over the candidates.         *)
permutation(gen, n, salt) ==
    NthPermutation((salt + gen.seed[2] + gen.draws) % Factorial(n),
                   [i \in 1..n |-> i])

\* a variant with random_state=None: the split shuffles with the global generator
split_generator_global(np) == np

\* check_random_state(random_state): a fresh generator seeded with 42,
\* whatever the state np of the global one
split_generator(np) == SeededWith(<<0, random_state>>)

\* a variant whose train slice starts one index early
train_indices_overlap(perm, n_train, n_test) == SubSeq(perm, n_test, n_test + n_train)

\* the rows taken from the shuffled indices, as ShuffleSplit slices them
test_indices(perm, n_train, n_test)  == SubSeq(perm, 1, n_test)
train_indices(perm, n_train, n_test) == SubSeq(perm, n_test + 1, n_test + n_train)

Rows(table, indices) == [j \in 1..Len(indices) |-> table[indices[j]]]

NoSplit == <<>>

\* utils.py: split_train_val(data, val_pct); np is the global generator
split_train_val(table, val_pct, np, salt) ==
    LET sizes == validate_shuffle_split(Len(table), val_pct)
        perm  == permutation(split_generator(np), Len(table), salt)
    IN  IF sizes.err # NoExc
        THEN [err |-> sizes.err, train |-> NoSplit, val |-> NoSplit]
        ELSE [err |-> NoExc,
              train |-> Rows(table, train_indices(perm, sizes.n_train, sizes.n_test)),
              val   |-> Rows(table, test_indices(perm, sizes.n_train, sizes.n_test))]

-----------------------------------------------------------------------------
(* SpecSplit: split_train_val called on every small table with every kind  *)
(* of val_pct                                                              *)

ValPcts ==
    { PyFloat(-1, 4), PyFloat(0, 4), PyFloat(1, 4), PyFloat(2, 4), PyFloat(3, 4),
      PyFloat(4, 4), PyFloat(6, 4),
      PyInt(-1), PyInt(0), PyInt(1), PyInt(2) }

Table(n) == [i \in 1..n |-> i]

SplitCall(val_pct) ==
    /\ Len(calls) < MaxCalls
    /\ calls' = Append(calls, [val_pct |-> val_pct, np |-> npRandom,
                               out |-> split_train_val(data, val_pct, npRandom, stream)])
    /\ UNCHANGED <<data, stream, fsVars, rngVars, trainVars>>

InitSplit ==
    /\ data \in { Table(n) : n \in 0..MaxRows }
    /\ stream \in 0..(Factorial(Len(data)) - 1)
    /\ calls = <<>>
    /\ FilesIdle /\ RngFresh /\ TrainIdle

NextSplit == \E f \in ValPcts : SplitCall(f)

SpecSplit == InitSplit /\ [][NextSplit]_vars

-----------------------------------------------------------------------------
(* SpecRepeat: split_train_val called repeatedly on one table, with        *)
(* set_seeds calls and draws from numpy's global generator in between      *)

RepeatPcts == { PyFloat(1, 4), PyFloat(2, 4) }

RepeatSeedArgs == { PyInt(0), PyInt(7) }

\* any draw from numpy's global generator
DrawNp ==
    /\ npRandom.draws < MaxDraws
    /\ npRandom' = [npRandom EXCEPT !.draws = @ + 1]
    /\ UNCHANGED <<environ, pyRandom, seedCall, fsVars, splitVars, trainVars>>

InitRepeat ==
    /\ data \in { Table(n) : n \in 0..MaxRepeatRows }
    /\ stream \in 0..(Factorial(Len(data)) - 1)
    /\ calls = <<>>
    /\ FilesIdle /\ RngFresh /\ TrainIdle

NextRepeat ==
    \/ \E f \in RepeatPcts : SplitCall(f)
    \/ \E s \in RepeatSeedArgs : SetSeeds(s) /\ UNCHANGED <<fsVars, splitVars, trainVars>>
    \/ DrawNp

SpecRepeat == InitRepeat /\ [][NextRepeat]_vars

-----------------------------------------------------------------------------
(* train.py: run_training, lines 51-94. Each statement is one step; log    *)
(* records the statements executed. The functions of other modules         *)
(* (schema, preprocessing, prediction) either return or raise.             *)

\* a variant in the order the specification lists: the pipeline and encoder
\* saved before handle_class_imbalance is called
next_statement_save_first(stmt) ==
    CASE stmt = "load_schema"            -> "save_schema"
      [] stmt = "save_schema"            -> "read_model_config"
      [] stmt = "read_model_config"      -> "set_seeds"
      [] stmt = "set_seeds"              -> "read_csv"
      [] stmt = "read_csv"               -> "split"
      [] stmt = "split"                  -> "fit_pipeline"
      [] stmt = "fit_pipeline"           -> "transform_train"
      [] stmt = "transform_train"        -> "transform_val"
      [] stmt = "transform_val"          -> "save_pipeline"
      [] stmt = "save_pipeline"          -> "handle_class_imbalance"
      [] stmt = "handle_class_imbalance" -> "read_hyperparameters"
      [] stmt = "read_hyperparameters"   -> "train_predictor"
      [] stmt = "train_predictor"        -> "save_predictor"
      [] stmt = "save_predictor"         -> "evaluate"
      [] stmt = "evaluate"               -> "print_accuracy"
      [] stmt = "print_accuracy"         -> "print_completed"
      [] stmt = "print_completed"        -> "done"

\* a variant that seeds only after the data is loaded and split
next_statement_seed_late(stmt) ==
    CASE stmt = "load_schema"            -> "save_schema"
      [] stmt = "save_schema"            -> "read_model_config"
      [] stmt = "read_model_config"      -> "read_csv"
      [] stmt = "read_csv"               -> "split"
      [] stmt = "split"                  -> "set_seeds"
      [] stmt = "set_seeds"              -> "fit_pipeline"
      [] stmt = "fit_pipeline"           -> "transform_train"
      [] stmt = "transform_train"        -> "transform_val"
      [] stmt = "transform_val"          -> "handle_class_imbalance"
      [] stmt = "handle_class_imbalance" -> "save_pipeline"
      [] stmt = "save_pipeline"          -> "read_hyperparameters"
      [] stmt = "read_hyperparameters"   -> "train_predictor"
      [] stmt = "train_predictor"        -> "save_predictor"
      [] stmt = "save_predictor"         -> "evaluate"
      [] stmt = "evaluate"               -> "print_accuracy"
      [] stmt = "print_accuracy"         -> "print_completed"
      [] stmt = "print_completed"        -> "done"

\* the statement that follows one that returned
next_statement(stmt) ==
    CASE stmt = "load_schema"            -> "save_schema"             \* 52
      [] stmt = "save_schema"            -> "read_model_config"       \* 53
      [] stmt = "read_model_config"      -> "set_seeds"               \* 56
      [] stmt = "set_seeds"              -> "read_csv"                \* 57
      [] stmt = "read_csv"               -> "split"                   \* 60
      [] stmt = "split"                  -> "fit_pipeline"            \* 63
      [] stmt = "fit_pipeline"           -> "transform_train"         \* 67
      [] stmt = "transform_train"        -> "transform_val"           \* 69
      [] stmt = "transform_val"          -> "handle_class_imbalance"  \* 71
      [] stmt = "handle_class_imbalance" -> "save_pipeline"           \* 73
      [] stmt = "save_pipeline"          -> "read_hyperparameters"    \* 76
      [] stmt = "read_hyperparameters"   -> "train_predictor"         \* 82
      [] stmt = "train_predictor"        -> "save_predictor"          \* 83
      [] stmt = "save_predictor"         -> "evaluate"                \* 87
      [] stmt = "evaluate"               -> "print_accuracy"          \* 90
      [] stmt = "print_accuracy"         -> "print_completed"         \* 92
      [] stmt = "print_completed"        -> "done"                    \* 94

\* a variant that runs the failed statement again
on_exception_retry(stmt) == stmt

\* a variant that swallows the exception and goes on
on_exception_swallow(stmt) == next_statement(stmt)

\* run_training has no try/except: an exception leaves it at once
on_exception(stmt) == "aborted"

\* the exception a function of another module raises
ExternalError(stmt) == Exc("Exception", stmt)

\* what executing stmt with outcome err does to the control state
Step(stmt, err) ==
    /\ pc = stmt
    /\ log' = Append(log, stmt)
    /\ IF err = NoExc
       THEN pc' = next_statement(stmt) /\ raised' = raised
       ELSE pc' = on_exception(stmt) /\ raised' = err

\* the artifact a save statement writes
artifact(stmt) ==
    CASE stmt = "save_schema"    -> "schema"
      [] stmt = "save_pipeline"  -> "pipeline"
      [] stmt = "save_predictor" -> "predictor"

ExternalStatements ==
    { "load_schema", "fit_pipeline", "transform_train", "transform_val",
      "handle_class_imbalance", "train_predictor", "evaluate" }
SaveStatements == { "save_schema", "save_pipeline", "save_predictor" }

\* the directory listings and file contents a run may meet
TrainListings ==
    { <<>>,
      << <<"a">> \o DotJson, <<"a">> \o DotCsv >>,
      << <<"b">> \o DotJson, <<"a">> \o DotJson, <<"b">> \o DotCsv, <<"a">> \o DotCsv >> }
PathStates ==
    { <<k, l>> \in PathKinds \X TrainListings : k = "dir" \/ l = <<>> }

SeedValues == { Missing, PyInt(0), PyInt(-1), PyStr, PyBool(TRUE) }
SplitValues == { Missing, PyFloat(1, 4), PyFloat(2, 4), PyFloat(4, 4), PyInt(1) }

\* lines 52, 67-73, 83, 90: a call into another module
ExternalCall(stmt) ==
    /\ \E ok \in BOOLEAN : Step(stmt, IF ok THEN NoExc ELSE ExternalError(stmt))
    /\ UNCHANGED <<writes, console, model_config, fsVars, rngVars, splitVars>>

\* lines 53, 76, 87: a save; one that raises may have written the file or not
Save(stmt) ==
    /\ \E ok, wrote \in BOOLEAN :
          /\ ok => wrote
          /\ Step(stmt, IF ok THEN NoExc ELSE ExternalError(stmt))
          /\ writes' = [writes EXCEPT ![artifact(stmt)] = @ + (IF wrote THEN 1 ELSE 0)]
    /\ UNCHANGED <<console, model_config, fsVars, rngVars, splitVars>>

\* json.load on the opened file: the object read, or JSONDecodeError
JsonLoad(out, parses) ==
    IF out.err # NoExc THEN out.err
    ELSE IF ~parses THEN Exc("JSONDecodeError", "Expecting value")
    ELSE NoExc

\* line 56: model_config = read_json_as_dict(model_config_file_path)
ReadModelConfig ==
    \E p \in PathStates, parses \in BOOLEAN, seed \in SeedValues, split \in SplitValues :
        LET out == read_json_as_dict(p[1], p[2])
            err == JsonLoad(out, parses)
        IN  /\ Step("read_model_config", err)
            /\ fsKind' = p[1] /\ fsListing' = p[2] /\ jsonResult' = out
            /\ model_config' = IF err = NoExc THEN Config(seed, split) ELSE model_config
            /\ UNCHANGED <<writes, console, csvResult, rngVars, splitVars>>

\* line 57: set_seeds(seed_value=model_config["seed_value"])
SeedStatement ==
    IF model_config.seed_value = Missing
    THEN /\ Step("set_seeds", Exc("KeyError", "seed_value"))
         /\ UNCHANGED <<writes, console, model_config, fsVars, rngVars, splitVars>>
    ELSE /\ SetSeeds(model_config.seed_value)
         /\ Step("set_seeds", seedCall'.err)
         /\ UNCHANGED <<writes, console, model_config, fsVars, splitVars>>

\* line 60: train_data = read_csv_in_directory(file_dir_path=train_dir)
ReadTrainData ==
    \E p \in PathStates, parses \in BOOLEAN, n \in 0..MaxTrainRows :
        LET out == read_csv_in_directory(p[1], p[2])
            err == IF out.err # NoExc THEN out.err
                   ELSE IF ~parses THEN Exc("ParserError", "Error tokenizing data")
                   ELSE NoExc
        IN  /\ Step("read_csv", err)
            /\ fsKind' = p[1] /\ fsListing' = p[2] /\ csvResult' = out
            /\ data' = IF err = NoExc THEN Table(n) ELSE data
            /\ UNCHANGED <<writes, console, model_config, jsonResult, rngVars, stream, calls>>

\* lines 63-64: split_train_val(train_data, val_pct=model_config["validation_split"])
SplitStatement ==
    IF model_config.validation_split = Missing
    THEN /\ Step("split", Exc("KeyError", "validation_split"))
         /\ UNCHANGED <<writes, console, model_config, fsVars, rngVars, splitVars>>
    ELSE LET out == split_train_val(data, model_config.validation_split, npRandom, stream)
         IN  /\ Step("split", out.err)
             /\ calls' = Append(calls, [val_pct |-> model_config.validation_split,
                                        np |-> npRandom, out |-> out])
             /\ UNCHANGED <<writes, console, model_config, fsVars, rngVars, data, stream>>

\* line 82: default_hyperparameters = read_json_as_dict(...)
ReadHyperparameters ==
    \E p \in PathStates, parses \in BOOLEAN :
        LET out == read_json_as_dict(p[1], p[2])
        IN  /\ Step("read_hyperparameters", JsonLoad(out, parses))
            /\ fsKind' = p[1] /\ fsListing' = p[2] /\ jsonResult' = out
            /\ UNCHANGED <<writes, console, model_config, csvResult, rngVars, splitVars>>

AccuracyLine  == "Validation accuracy:"
CompletedLine == "Training completed successfully"

\* lines 92 and 94: the two print statements
print_line(stmt, line) ==
    /\ Step(stmt, NoExc)
    /\ console' = Append(console, line)
    /\ UNCHANGED <<writes, model_config, fsVars, rngVars, splitVars>>

InitTrain ==
    /\ pc = "load_schema" /\ log = <<>> /\ raised = NoExc
    /\ writes = [schema |-> 0, pipeline |-> 0, predictor |-> 0]
    /\ console = <<>> /\ model_config = NoConfig
    /\ data = <<>> /\ calls = <<>>
    /\ stream \in 0..(Factorial(MaxTrainRows) - 1)
    /\ FilesIdle /\ RngFresh

NextTrain ==
    \/ \E stmt \in ExternalStatements : ExternalCall(stmt)
    \/ \E stmt \in SaveStatements : Save(stmt)
    \/ ReadModelConfig
    \/ SeedStatement
    \/ ReadTrainData
    \/ SplitStatement
    \/ ReadHyperparameters
    \/ print_line("print_accuracy", AccuracyLine)
    \/ print_line("print_completed", CompletedLine)

SpecTrain == InitTrain /\ [][NextTrain]_vars

-----------------------------------------------------------------------------
(* The error kinds of the specification, as the exceptions of the code *)

IsNotFoundError(e) ==
    /\ e.exc = "ValueError"
    /\ e.msg \in {"No JSON files found in the directory", "No CSV file found in directory"}
IsAmbiguousInputError(e) ==
    /\ e.exc = "ValueError"
    /\ e.msg \in {"Multiple JSON files found in the directory",
                   "Multiple CSV files found in directory"}
IsInvalidPathError(e) ==
    e = Exc("ValueError", "Input path is neither a file nor a directory")
IsMissingDirectoryError(e) == e.exc = "FileNotFoundError"
IsInvalidArgumentError(e) ==
    e = Exc("ValueError", "Invalid seed value. Cannot set seeds.")
IsInvalidFractionError(e) == e.exc = "ValueError"

Range(seq) == { seq[i] : i \in 1..Len(seq) }
Matches(suffix) == { i \in 1..Len(fsListing) : EndsWith(fsListing[i], suffix) }
FirstMatch(suffix) ==
    fsListing[CHOOSE i \in Matches(suffix) : \A j \in Matches(suffix) : i <= j]

-----------------------------------------------------------------------------
(* Claims about the file readers, under SpecFiles *)

JsonCalled == jsonResult # NotCalled
CsvCalled  == csvResult # NotCalled

\* C1 as stated: read_json_as_dict never guesses. On a directory with two or
\* more '.json' entries it fails with an AmbiguousInputError and returns no
\* dictionary, with none it fails with a NotFoundError, with exactly one it
\* reads that file; a file is read itself; anything else is an
\* InvalidPathError.
C1_NeverGuesses ==
    JsonCalled =>
        CASE fsKind = "dir" /\ Cardinality(Matches(DotJson)) >= 2 ->
                 IsAmbiguousInputError(jsonResult.err) /\ jsonResult.value = <<>>
          [] fsKind = "dir" /\ Cardinality(Matches(DotJson)) = 0 ->
                 IsNotFoundError(jsonResult.err) /\ jsonResult.value = <<>>
          [] fsKind = "dir" /\ Cardinality(Matches(DotJson)) = 1 ->
                 jsonResult.err = NoExc
                 /\ jsonResult.value = Join(InputPath, FirstMatch(DotJson))
          [] fsKind = "file" ->
                 jsonResult.err = NoExc /\ jsonResult.value = InputPath
          [] OTHER ->
                 IsInvalidPathError(jsonResult.err) /\ jsonResult.value = <<>>

\* C1 as the code has it: on a directory with one or more '.json' entries
\* read_json_as_dict reads the first of them in listing order and raises
\* nothing (with two or more it picks silently); with none it fails with the
\* NotFoundError-kind ValueError; a file is read itself; a path that is
\* neither fails with the InvalidPathError-kind ValueError.
C1_ReadsFirstJson ==
    JsonCalled =>
        CASE fsKind = "dir" /\ Cardinality(Matches(DotJson)) >= 1 ->
                 jsonResult.err = NoExc
                 /\ jsonResult.value = Join(InputPath, FirstMatch(DotJson))
          [] fsKind = "dir" /\ Cardinality(Matches(DotJson)) = 0 ->
                 IsNotFoundError(jsonResult.err) /\ jsonResult.value = <<>>
          [] fsKind = "file" ->
                 jsonResult.err = NoExc /\ jsonResult.value = InputPath
          [] OTHER ->
                 IsInvalidPathError(jsonResult.err) /\ jsonResult.value = <<>>

\* a directory listing b.json before a.json was read: b.json was taken
C1_Witness ==
    /\ JsonCalled /\ fsKind = "dir"
    /\ Cardinality(Matches(DotJson)) = 2
    /\ fsListing[1] = <<"a">> \o DotCsv
    /\ jsonResult.value = Join(InputPath, <<"b">> \o DotJson)

\* C2 as stated: the outcome of read_csv_in_directory is decided in this
\* order: the path is no existing directory -> MissingDirectoryError before
\* any listing; no '.csv' entry -> NotFoundError; two or more ->
\* AmbiguousInputError; exactly one -> the table of that file. Every error
\* returns no table.
C2_CsvOutcomeByPathState ==
    CsvCalled =>
        CASE fsKind # "dir" ->
                 IsMissingDirectoryError(csvResult.err) /\ ~csvResult.listed
                 /\ csvResult.value = <<>>
          [] fsKind = "dir" /\ Cardinality(Matches(DotCsv)) = 0 ->
                 IsNotFoundError(csvResult.err) /\ csvResult.value = <<>>
          [] fsKind = "dir" /\ Cardinality(Matches(DotCsv)) >= 2 ->
                 IsAmbiguousInputError(csvResult.err) /\ csvResult.value = <<>>
          [] OTHER ->
                 csvResult.err = NoExc
                 /\ csvResult.value = Join(InputPath, FirstMatch(DotCsv))

-----------------------------------------------------------------------------
(* Claims about set_seeds, under SpecSeed *)

SourcesSetTo(i) ==
    /\ environ' = str(seedCall'.arg)
    /\ pyRandom'.src = "seed" /\ pyRandom'.seed \in {i, Abs(i)}
    /\ npRandom' = SeededWith(i)

\* C5 as stated: every argument that is not an integer (a string, a float,
\* None, and also a boolean) fails with InvalidArgumentError and leaves the
\* three random sources unchanged; every integer sets all three to the seed.
C5_OnlyIntegersSeed ==
    [][ IF seedCall'.arg.type = "int"
        THEN seedCall'.err = NoExc /\ SourcesSetTo(IntOf(seedCall'.arg))
        ELSE IsInvalidArgumentError(seedCall'.err)
             /\ UNCHANGED <<environ, pyRandom, npRandom>> ]_vars

\* C5 as the code has it: an argument that is no instance of int (a string,
\* a float, None) fails with the invalid-seed ValueError and leaves the three
\* sources unchanged; an int or a bool (True is 1, False is 0) from
\* 0 to 2**32 - 1 sets all three; an int below 0 or above 2**32 - 1 sets the
\* hash seed and the general-purpose generator (seeded with its absolute
\* value), and then numpy raises ValueError with its own generator unchanged.
C5_IsinstanceIntSeeds ==
    [][ LET a == seedCall'.arg
        IN  IF a.type \notin {"int", "bool"}
            THEN IsInvalidArgumentError(seedCall'.err)
                 /\ UNCHANGED <<environ, pyRandom, npRandom>>
            ELSE /\ environ' = str(a)
                 /\ pyRandom' = SeededWith(Abs(IntOf(a)))
                 /\ IF NpSeedInRange(IntOf(a))
                    THEN seedCall'.err = NoExc /\ npRandom' = SeededWith(IntOf(a))
                    ELSE seedCall'.err.exc = "ValueError"
                         /\ ~IsInvalidArgumentError(seedCall'.err)
                         /\ npRandom' = npRandom ]_vars

\* set_seeds(True) went through and seeded all three sources with 1
C5_Witness ==
    /\ seedCall.called /\ seedCall.arg = PyBool(TRUE) /\ seedCall.err = NoExc
    /\ environ = <<"T", "r", "u", "e">>
    /\ pyRandom = SeededWith(<<0, 1>>) /\ npRandom = SeededWith(<<0, 1>>)

-----------------------------------------------------------------------------
(* Claims about split_train_val, under SpecSplit *)

StrictlyBetween0And1(f) == 0 < f.num /\ f.num < f.den
IsFraction(f) == f.type = "float" /\ StrictlyBetween0And1(f)

\* Python's round(a / b): to the nearest integer, a tie to the even one
Round(a, b) ==
    LET q == a \div b
        r == a % b
    IN  IF 2 * r < b THEN q
        ELSE IF 2 * r > b THEN q + 1
        ELSE IF q % 2 = 0 THEN q ELSE q + 1

Distance(a, b) == IF a < b THEN b - a ELSE a - b

IsPartition(out) ==
    /\ Len(out.train) + Len(out.val) = Len(data)
    /\ Range(out.train) \cap Range(out.val) = {}
    /\ Range(out.train) \cup Range(out.val) = Range(data)
    /\ Cardinality(Range(out.train)) = Len(out.train)
    /\ Cardinality(Range(out.val)) = Len(out.val)

\* C3 as stated: for every table (also of 0, 1 or 2 rows) and every fraction
\* strictly between 0 and 1, split_train_val returns (train, val) whose sizes
\* add up to the table's, with every row in exactly one of them and
\* len(val) within one row of round(len(T) * f).
C3_EveryTableSplits ==
    \A i \in 1..Len(calls) :
        LET f == calls[i].val_pct
            out == calls[i].out
        IN  IsFraction(f) =>
                /\ out.err = NoExc
                /\ IsPartition(out)
                /\ Distance(Len(out.val), Round(Len(data) * f.num, f.den)) <= 1

\* C3 as the code has it: for a fraction f strictly between 0 and 1 and a
\* table of n rows, when ceil(n * f) < n the call returns (train, val) whose
\* sizes add up to n, with every row in exactly one of them and
\* len(val) = ceil(n * f), which is within one row of round(n * f); when
\* ceil(n * f) = n (every table of 0 or 1 rows, and e.g. 2 rows with
\* f = 0.75) the call raises ValueError and returns no split.
C3_SplitsWhenTrainNonEmpty ==
    \A i \in 1..Len(calls) :
        LET f == calls[i].val_pct
            out == calls[i].out
            n == Len(data)
        IN  IsFraction(f) =>
                IF Ceil(n * f.num, f.den) < n
                THEN /\ out.err = NoExc
                     /\ IsPartition(out)
                     /\ Len(out.val) = Ceil(n * f.num, f.den)
                     /\ Distance(Len(out.val), Round(n * f.num, f.den)) <= 1
                ELSE /\ out.err = EmptyTrainError
                     /\ out.train = NoSplit /\ out.val = NoSplit

\* two rows split with f = 0.25: one validation row, where round(0.5) is 0
C3_Witness ==
    \E i \in 1..Len(calls) :
        /\ Len(data) = 2 /\ calls[i].val_pct = PyFloat(1, 4)
        /\ calls[i].out.err = NoExc
        /\ Len(calls[i].out.val) = 1 /\ Len(calls[i].out.train) = 1

\* C4 as stated: split_train_val fails with InvalidFractionError, and
\* returns no split, for every val_pct that is not strictly between 0 and 1:
\* 0, 1, the negative values, and the integers such as 1 or 2.
C4_OutsideUnitIntervalFails ==
    \A i \in 1..Len(calls) :
        ~StrictlyBetween0And1(calls[i].val_pct) =>
            /\ IsInvalidFractionError(calls[i].out.err)
            /\ calls[i].out.train = NoSplit /\ calls[i].out.val = NoSplit

-----------------------------------------------------------------------------
(* Claims about repeated splits, under SpecRepeat *)

\* C10: the partition split_train_val returns is a function of the table and
\* the fraction only: two calls on the same table with the same fraction
\* return the same (train, val), whatever was seeded and drawn in between.
C10_SplitIgnoresGlobalSeed ==
    \A i, j \in 1..Len(calls) :
        calls[i].val_pct = calls[j].val_pct => calls[i].out = calls[j].out

\* two successful splits of a two-row table with the same fraction, the
\* global generator unseeded at the first and seeded with 7 at the second
C10_Witness ==
    /\ Len(calls) = 2 /\ Len(data) = 2
    /\ calls[1].val_pct = calls[2].val_pct
    /\ calls[1].np = Unseeded /\ calls[2].np = SeededWith(<<0, 7>>)
    /\ calls[1].out.err = NoExc /\ Len(calls[1].out.val) = 1

-----------------------------------------------------------------------------
(* Claims about run_training, under SpecTrain *)

CodeOrder ==
    << "load_schema", "save_schema", "read_model_config", "set_seeds",
       "read_csv", "split", "fit_pipeline", "transform_train", "transform_val",
       "handle_class_imbalance", "save_pipeline", "read_hyperparameters",
       "train_predictor", "save_predictor", "evaluate", "print_accuracy",
       "print_completed" >>

\* the order the specification lists
ListedOrder ==
    << "load_schema", "save_schema", "read_model_config", "set_seeds",
       "read_csv", "split", "fit_pipeline", "transform_train", "transform_val",
       "save_pipeline", "handle_class_imbalance", "read_hyperparameters",
       "train_predictor", "save_predictor", "evaluate", "print_accuracy",
       "print_completed" >>

IsPrefix(s, t) == Len(s) <= Len(t) /\ s = SubSeq(t, 1, Len(s))
Count(seq, x) == Cardinality({ i \in 1..Len(seq) : seq[i] = x })
Executed(stmt) == stmt \in Range(log)
\* stmt has been called or is the statement about to be called
Invoked(stmt) == Executed(stmt) \/ pc = stmt
Before(a, b) ==
    \A k \in 1..Len(log) : log[k] = b => \E j \in 1..(k - 1) : log[j] = a

RandomDependent == { "split", "fit_pipeline", "handle_class_imbalance", "train_predictor" }

SeedingCompleted ==
    /\ Count(log, "set_seeds") = 1
    /\ seedCall.called /\ seedCall.err = NoExc
    /\ npRandom.src = "seed" /\ pyRandom.src = "seed" /\ environ # Unset

\* C6: in a run of run_training set_seeds is never called twice, and it has
\* been called once and has returned before the split, the pipeline fit, the
\* imbalance handling or the predictor training begins; none of them happens
\* in a run whose seeding failed; a run that completes has seeded once.
C6_SeedOnceBeforeRandomness ==
    /\ Count(log, "set_seeds") <= 1
    /\ \A op \in RandomDependent :
          Invoked(op) => SeedingCompleted /\ Before("set_seeds", op)
    /\ (Executed("set_seeds") /\ ~SeedingCompleted) =>
          \A op \in RandomDependent : ~Invoked(op)
    /\ pc = "done" => SeedingCompleted

\* a completed run: seeded with 0, then split, fit, balanced and trained
C6_Witness ==
    /\ pc = "done" /\ seedCall.arg = PyInt(0) /\ npRandom = SeededWith(<<0, 0>>)
    /\ \A op \in RandomDependent : Executed(op)
    /\ Len(calls) = 1 /\ calls[1].out.err = NoExc

\* C7 as stated: the statements run in the listed order, with the pipeline
\* and target encoder already persisted when imbalance handling is invoked
\* and the predictor already persisted when evaluation is invoked.
C7_ListedOrder ==
    /\ IsPrefix(log, ListedOrder)
    /\ Invoked("handle_class_imbalance") => writes.pipeline = 1
    /\ Invoked("evaluate") => writes.predictor = 1

\* C7 as the code has it: schema load, schema copy, config load, seeding,
\* data load, split, pipeline fit, transform of the train and of the
\* validation split, then imbalance handling, and only then the persistence
\* of pipeline and encoder; then the hyperparameter read, predictor training
\* and persistence, evaluation and the two printed lines. The pipeline and
\* encoder are not yet persisted when imbalance handling is invoked; all
\* three artifacts are persisted when evaluation is invoked.
C7_CodeOrder ==
    /\ IsPrefix(log, CodeOrder)
    /\ pc \in {"done", "aborted"} \/ pc = CodeOrder[Len(log) + 1]
    /\ Invoked("handle_class_imbalance") =>
          Executed("transform_train") /\ Executed("transform_val")
    /\ pc = "handle_class_imbalance" => writes.pipeline = 0
    /\ Executed("save_pipeline") => Executed("handle_class_imbalance")
    /\ Invoked("train_predictor") => writes.pipeline = 1
    /\ Invoked("evaluate") =>
          writes = [schema |-> 1, pipeline |-> 1, predictor |-> 1]

\* imbalance handling has returned and the pipeline is not saved yet
C7_Witness ==
    /\ pc = "save_pipeline" /\ writes.pipeline = 0
    /\ log[Len(log)] = "handle_class_imbalance"

\* the exception the last executed statement raised, read off what it left
OriginatingError ==
    LET stmt == log[Len(log)]
    IN  CASE stmt \in ExternalStatements \cup SaveStatements -> ExternalError(stmt)
          [] stmt \in {"read_model_config", "read_hyperparameters"} ->
                 IF jsonResult.err # NoExc THEN jsonResult.err
                 ELSE Exc("JSONDecodeError", "Expecting value")
          [] stmt = "set_seeds" ->
                 IF model_config.seed_value = Missing THEN Exc("KeyError", "seed_value")
                 ELSE seedCall.err
          [] stmt = "read_csv" ->
                 IF csvResult.err # NoExc THEN csvResult.err
                 ELSE Exc("ParserError", "Error tokenizing data")
          [] stmt = "split" ->
                 IF model_config.validation_split = Missing
                 THEN Exc("KeyError", "validation_split")
                 ELSE calls[Len(calls)].out.err
          [] OTHER -> NoExc

FailFastState ==
    /\ IsPrefix(log, CodeOrder)
    /\ (pc = "aborted") = (raised # NoExc)
    /\ pc = "aborted" => /\ log # <<>>
                         /\ raised = OriginatingError

FailFastStep ==
    /\ pc # "aborted"
    /\ log' = Append(log, pc)
    /\ \A a \in DOMAIN writes : writes'[a] >= writes[a]

\* C8: run_training is fail-fast. A statement that raises ends the run with
\* that exception unchanged; no statement runs after it, none runs twice,
\* and what was written before stays written.
C8_FailFast == [](FailFastState) /\ [][FailFastStep]_vars

\* evaluation raised after the three artifacts were written
C8_Witness ==
    /\ pc = "aborted" /\ raised = ExternalError("evaluate")
    /\ writes = [schema |-> 1, pipeline |-> 1, predictor |-> 1]
    /\ Len(log) = 15

\* C9: each artifact is written at most once; the completion line is printed
\* only when the three artifacts are written exactly once and the accuracy
\* line was printed exactly once before it; a run that fails never prints it.
C9_ArtifactsOnceThenCompletion ==
    /\ \A a \in DOMAIN writes : writes[a] <= 1
    /\ Count(console, CompletedLine) <= 1 /\ Count(console, AccuracyLine) <= 1
    /\ CompletedLine \in Range(console) =>
          /\ writes = [schema |-> 1, pipeline |-> 1, predictor |-> 1]
          /\ console = <<AccuracyLine, CompletedLine>>
    /\ raised # NoExc => CompletedLine \notin Range(console)
    /\ pc = "done" => CompletedLine \in Range(console)

\* a completed run
C9_Witness ==
    /\ pc = "done" /\ raised = NoExc
    /\ console = <<AccuracyLine, CompletedLine>>
    /\ writes = [schema |-> 1, pipeline |-> 1, predictor |-> 1]

=============================================================================
